---- MODULE Spec2Model ----
(***************************************************************************)
(* Model of the battle endpoint of the monster API                        *)
(* (api/src/controllers/battle.extended.controller.ts):                   *)
(*   - simulateBattle, the turn-based combat simulation, one loop          *)
(*     iteration per step;                                                 *)
(*   - create, the request handler, one step per synchronous segment       *)
(*     between two awaits.                                                 *)
(***************************************************************************)
EXTENDS Integers, Sequences, FiniteSets, TLC

(* ---------------------------------------------------------------------- *)
(* Bounds of the explored input space                                      *)
(* ---------------------------------------------------------------------- *)
MaxHp == 3

MaxAttack == 3

MaxDefense == 2

MaxSpeed == 2

(* ---------------------------------------------------------------------- *)
(* Monster records                                                         *)
(* ---------------------------------------------------------------------- *)
HpValues == (-1) .. MaxHp

AttackValues == 1 .. MaxAttack

DefenseValues == 0 .. MaxDefense

SpeedValues == 1 .. MaxSpeed

SimIds == {1, 2}

NameOf(id) == IF id = 1 THEN "Dead Unicorn" ELSE IF id = 2 THEN "Old Shark" ELSE "Red Dragon"

ImageOf(id) == IF id = 1 THEN "dead-unicorn.png" ELSE IF id = 2 THEN "old-shark.png" ELSE "red-dragon.png"

MonsterRecord(id, attack, defense, hp, speed) ==
    [id |-> id, name |-> NameOf(id), attack |-> attack, defense |-> defense,
     hp |-> hp, speed |-> speed, imageUrl |-> ImageOf(id)]

MonsterRecords(ids) ==
    { MonsterRecord(id, a, d, h, s) :
        id \in ids, a \in AttackValues, d \in DefenseValues, h \in HpValues, s \in SpeedValues }

\* What a lookup that finds no row returns (undefined), and the value of a
\* monster-valued field that is not there.
Undefined ==
    [id |-> -1, name |-> "", attack |-> 0, defense |-> 0, hp |-> 0, speed |-> 0, imageUrl |-> ""]

Max(a, b) == IF a >= b THEN a ELSE b

(* ---------------------------------------------------------------------- *)
(* simulateBattle                                                          *)
(* ---------------------------------------------------------------------- *)

\* The working copy of a record: its fields plus currentHp.
Fighter(monster) ==
    [id |-> monster.id, name |-> monster.name, attack |-> monster.attack,
     defense |-> monster.defense, hp |-> monster.hp, speed |-> monster.speed,
     imageUrl |-> monster.imageUrl, currentHp |-> monster.hp]

\* The condition under which fighter2 takes the first turn.
Fighter2FirstTieOnAttack(fighter1, fighter2) ==
    \/ fighter2.speed > fighter1.speed
    \/ (fighter2.speed = fighter1.speed /\ fighter2.attack >= fighter1.attack)

\* The turn order as it would be without the tie-break on attack.
Fighter2FirstSpeedOnly(fighter1, fighter2) == fighter2.speed > fighter1.speed

Fighter2First(fighter1, fighter2) ==
    \/ fighter2.speed > fighter1.speed
    \/ (fighter2.speed = fighter1.speed /\ fighter2.attack > fighter1.attack)

\* The state of one call: the two argument objects, the two working copies,
\* the turn log, which working copy currentAttacker refers to (1 or 2;
\* currentDefender is the other one) and the position in the function.
SimStart(monster1, monster2) ==
    [monster1 |-> monster1,
     monster2 |-> monster2,
     fighter1 |-> Fighter(monster1),
     fighter2 |-> Fighter(monster2),
     turns |-> << >>,
     currentAttacker |-> IF Fighter2First(Fighter(monster1), Fighter(monster2)) THEN 2 ELSE 1,
     pc |-> "loop"]

Other(i) == 3 - i

FighterOf(s, i) == IF i = 1 THEN s.fighter1 ELSE s.fighter2

LoopCondEither(s) == s.fighter1.currentHp > 0 \/ s.fighter2.currentHp > 0

LoopCond(s) == s.fighter1.currentHp > 0 /\ s.fighter2.currentHp > 0

\* The damage as it would be if the defender's defense were left out.
DamageIgnoresDefense(attacker, defender) == Max(1, attacker.attack)

DamageUnfloored(attacker, defender) == attacker.attack - defender.defense

Damage(attacker, defender) == Max(1, attacker.attack - defender.defense)

HpAfterHitUnfloored(currentHp, damage) == currentHp - damage

HpAfterHit(currentHp, damage) == Max(0, currentHp - damage)

\* The snapshot as it would be if it recorded the working copy's current
\* hit-points as hp.
MonsterDataCurrentHp(fighter) ==
    [id |-> fighter.id, name |-> fighter.name, attack |-> fighter.attack,
     defense |-> fighter.defense, hp |-> fighter.currentHp, speed |-> fighter.speed,
     imageUrl |-> fighter.imageUrl]

MonsterData(fighter) ==
    [id |-> fighter.id, name |-> fighter.name, attack |-> fighter.attack,
     defense |-> fighter.defense, hp |-> fighter.hp, speed |-> fighter.speed,
     imageUrl |-> fighter.imageUrl]

\* The turn as it would be if remainingHp were read from the defender's hp
\* field instead of its currentHp.
TurnRecordsHp(attacker, defender, damage) ==
    [attacker |-> MonsterData(attacker), defender |-> MonsterData(defender),
     damage |-> damage, remainingHp |-> defender.hp]

Turn(attacker, defender, damage) ==
    [attacker |-> MonsterData(attacker), defender |-> MonsterData(defender),
     damage |-> damage, remainingHp |-> defender.currentHp]

\* The loop body as it would be if the working copies were the argument
\* objects themselves: the hit lands on the record's hp as well.
LoopBodyAliased(s) ==
    LET attacker == FighterOf(s, s.currentAttacker)
        defender == FighterOf(s, Other(s.currentAttacker))
        damage == Damage(attacker, defender)
        hit == [defender EXCEPT !.currentHp = HpAfterHit(defender.currentHp, damage)]
        broke == hit.currentHp <= 0
    IN  [s EXCEPT
           !.monster1 = IF s.currentAttacker = 2 THEN [@ EXCEPT !.hp = hit.currentHp] ELSE @,
           !.monster2 = IF s.currentAttacker = 1 THEN [@ EXCEPT !.hp = hit.currentHp] ELSE @,
           !.fighter1 = IF s.currentAttacker = 2 THEN hit ELSE @,
           !.fighter2 = IF s.currentAttacker = 1 THEN hit ELSE @,
           !.turns = Append(@, Turn(attacker, hit, damage)),
           !.currentAttacker = IF broke THEN @ ELSE Other(@),
           !.pc = IF broke THEN "exit" ELSE "loop"]

\* The loop body as it would be without the swap of lines 149-151.
LoopBodyNoSwap(s) ==
    LET attacker == FighterOf(s, s.currentAttacker)
        defender == FighterOf(s, Other(s.currentAttacker))
        damage == Damage(attacker, defender)
        hit == [defender EXCEPT !.currentHp = HpAfterHit(defender.currentHp, damage)]
        broke == hit.currentHp <= 0
    IN  [s EXCEPT
           !.fighter1 = IF s.currentAttacker = 2 THEN hit ELSE @,
           !.fighter2 = IF s.currentAttacker = 1 THEN hit ELSE @,
           !.turns = Append(@, Turn(attacker, hit, damage)),
           !.pc = IF broke THEN "exit" ELSE "loop"]

\* The loop body as it would be if a turn held the defender's working copy
\* itself: every recorded turn of that defender shows its latest currentHp.
LoopBodyLiveLog(s) ==
    LET attacker == FighterOf(s, s.currentAttacker)
        defender == FighterOf(s, Other(s.currentAttacker))
        damage == Damage(attacker, defender)
        hit == [defender EXCEPT !.currentHp = HpAfterHit(defender.currentHp, damage)]
        broke == hit.currentHp <= 0
        live == [k \in 1 .. Len(s.turns) |->
                    IF s.turns[k].defender.id = defender.id
                    THEN [s.turns[k] EXCEPT !.remainingHp = hit.currentHp]
                    ELSE s.turns[k]]
    IN  [s EXCEPT
           !.fighter1 = IF s.currentAttacker = 2 THEN hit ELSE @,
           !.fighter2 = IF s.currentAttacker = 1 THEN hit ELSE @,
           !.turns = Append(live, Turn(attacker, hit, damage)),
           !.currentAttacker = IF broke THEN @ ELSE Other(@),
           !.pc = IF broke THEN "exit" ELSE "loop"]

\* One iteration of the while loop, entered with LoopCond true.
LoopBody(s) ==
    LET attacker == FighterOf(s, s.currentAttacker)
        defender == FighterOf(s, Other(s.currentAttacker))
        damage == Damage(attacker, defender)
        hit == [defender EXCEPT !.currentHp = HpAfterHit(defender.currentHp, damage)]
        broke == hit.currentHp <= 0
    IN  [s EXCEPT
           !.fighter1 = IF s.currentAttacker = 2 THEN hit ELSE @,
           !.fighter2 = IF s.currentAttacker = 1 THEN hit ELSE @,
           !.turns = Append(@, Turn(attacker, hit, damage)),
           !.currentAttacker = IF broke THEN @ ELSE Other(@),
           !.pc = IF broke THEN "exit" ELSE "loop"]

\* The winner as it would be with the two branches of line 154 exchanged.
WinnerInverted(s) == IF s.fighter1.currentHp > 0 THEN s.monster2 ELSE s.monster1

\* The winner as it would be if the damaged working copy were returned.
WinnerWorkingCopy(s) ==
    IF s.fighter1.currentHp > 0
    THEN [s.monster1 EXCEPT !.hp = s.fighter1.currentHp]
    ELSE [s.monster2 EXCEPT !.hp = s.fighter2.currentHp]

Winner(s) == IF s.fighter1.currentHp > 0 THEN s.monster1 ELSE s.monster2

BattleResult(s) ==
    [winner |-> Winner(s),
     battleData |-> [monster1 |-> s.monster1, monster2 |-> s.monster2, turns |-> s.turns]]

RECURSIVE RunLoop(_)
RunLoop(s) ==
    IF s.pc = "loop" /\ LoopCond(s) THEN RunLoop(LoopBody(s)) ELSE [s EXCEPT !.pc = "exit"]

simulateBattle(monster1, monster2) == BattleResult(RunLoop(SimStart(monster1, monster2)))

\* The value of a result that has not been produced.
NoResult ==
    [winner |-> Undefined,
     battleData |-> [monster1 |-> Undefined, monster2 |-> Undefined, turns |-> << >>]]

\* No call of simulateBattle is running.
SimIdle ==
    [monster1 |-> Undefined, monster2 |-> Undefined,
     fighter1 |-> Fighter(Undefined), fighter2 |-> Fighter(Undefined),
     turns |-> << >>, currentAttacker |-> 1, pc |-> "idle"]

(* ---------------------------------------------------------------------- *)
(* Request bodies, the monster table and responses                         *)
(* ---------------------------------------------------------------------- *)

\* A JSON value of a request body field (or undefined when the field is
\* not there): its type, and its value when a number or a string.
JsUndefined == [kind |-> "undefined", num |-> 0, str |-> ""]

JsNull == [kind |-> "null", num |-> 0, str |-> ""]

JsNum(n) == [kind |-> "number", num |-> n, str |-> ""]

JsStr(t) == [kind |-> "string", num |-> 0, str |-> t]

JsonIds == {JsUndefined, JsNull, JsNum(0), JsNum(1), JsNum(2), JsNum(999), JsStr(""), JsStr("1")}

\* The presence test as it would be if only a field that is not there, or
\* null, counted as missing.
FalsyAbsentOnly(v) == v.kind \in {"undefined", "null"}

\* !v
Falsy(v) ==
    \/ v.kind \in {"undefined", "null"}
    \/ (v.kind = "number" /\ v.num = 0)
    \/ (v.kind = "string" /\ v.str = "")

\* The condition of the first validation (line 39).
MissingIdBoth(monster1Id, monster2Id) == Falsy(monster1Id) /\ Falsy(monster2Id)

MissingId(monster1Id, monster2Id) == Falsy(monster1Id) \/ Falsy(monster2Id)

\* The condition of the second validation (line 45): strict equality, which
\* holds only of two values of the same type.
SameId(monster1Id, monster2Id) == monster1Id = monster2Id

\* The rows of the monster table: three stored monsters, with ids 0, 1, 2.
StoredIds == {0, 1, 2}

StoredStats == { << 3, 1, 3, 2 >>, << 1, 2, 2, 1 >> }

Tables ==
    { [id \in StoredIds |-> MonsterRecord(id, f[id][1], f[id][2], f[id][3], f[id][4])] :
        f \in [StoredIds -> StoredStats] }

\* The primary key a query compares the stored ids with.
DbKey(id) ==
    IF id.kind = "number" THEN id.num
    ELSE IF id = JsStr("1") THEN 1
    ELSE -1

\* Monster.query().findById(id), when the query succeeds.
FindById(table, id) ==
    IF DbKey(id) \in DOMAIN table THEN table[DbKey(id)] ELSE Undefined

BAD_REQUEST == 400

NOT_FOUND == 404

CREATED == 201

INTERNAL_SERVER_ERROR == 500

\* res.status(status).json({ error })
ErrorResponse(status, error) ==
    [status |-> status, error |-> error, id |-> 0,
     winner |-> Undefined, battleData |-> NoResult.battleData]

\* The errors an awaited lookup or insert can reject with.
Errors == {"connect ECONNREFUSED 127.0.0.1:5432", "SQLITE_BUSY: database is locked"}

NoError == ""

\* The response of the catch block as it would be if it passed the caught
\* error's message on.
CatchResponseLeaking(error) == ErrorResponse(INTERNAL_SERVER_ERROR, error)

\* The response of the catch block (lines 75-79).
CatchResponse(error) == ErrorResponse(INTERNAL_SERVER_ERROR, "Failed to create battle")

\* The not-found test as it would be if only the first lookup were tested.
NotFoundFirstOnly(first, second) == first = Undefined

NotFoundBoth(first, second) == first = Undefined /\ second = Undefined

\* The not-found test (line 54).
NotFound(first, second) == first = Undefined \/ second = Undefined

\* The created response as the README documents it: the two monsters and
\* the winner, without the turn log.
CreatedResponseWithoutTurns(battle, outcome) ==
    [status |-> CREATED, error |-> "", id |-> battle.id,
     winner |-> outcome.winner,
     battleData |-> [outcome.battleData EXCEPT !.turns = << >>]]

\* The created response as it would be if the id were read from the row
\* handed to the insert, which has none, instead of the row it returned.
CreatedResponseNoId(battle, outcome) ==
    [status |-> CREATED, error |-> "", id |-> 0,
     winner |-> outcome.winner, battleData |-> outcome.battleData]

\* res.status(CREATED).json({ id, winner, battleData })
CreatedResponse(battle, outcome) ==
    [status |-> CREATED, error |-> "", id |-> battle.id,
     winner |-> outcome.winner, battleData |-> outcome.battleData]

\* The row handed to the insert as it would be if the first monster were
\* always stored as the winner.
BattleDataWinnerFirst(first, second, outcome) ==
    [monsterA |-> first.id, monsterB |-> second.id, winner |-> first.id]

\* The row handed to Battle.query().insert (lines 62-66).
BattleData(first, second, outcome) ==
    [monsterA |-> first.id, monsterB |-> second.id, winner |-> outcome.winner.id]

\* The value of battleData before line 62.
NoBattleData == [monsterA |-> -1, monsterB |-> -1, winner |-> -1]

Requests == {"r1", "r2"}

(* ---------------------------------------------------------------------- *)
(* State                                                                   *)
(* ---------------------------------------------------------------------- *)
VARIABLES
    args,        \* the two records a simulation was called with, as they were at the call
    sim,         \* the running call of simulateBattle
    result,      \* what the last completed call returned
    prevResult,  \* what the call before it returned
    runs,        \* number of calls started on args
    monsters,    \* the monster table
    battles,     \* the battle table, in insertion order
    pc,          \* per request: where create is suspended
    body,        \* per request: req.body
    monster1,    \* per request: the first lookup's result
    monster2,    \* per request: the second lookup's result
    battleResult,\* per request: what simulateBattle returned
    battleData,  \* per request: the row handed to the insert
    calls,       \* per request: the calls create has made, in order
    thrown,      \* per request: the message of the error the catch block caught
    responses    \* per request: the responses sent, in order

simVars == << args, sim, result, prevResult, runs >>

reqVars == << monsters, battles, pc, body, monster1, monster2, battleResult, battleData,
             calls, thrown, responses >>

vars == << args, sim, result, prevResult, runs,
           monsters, battles, pc, body, monster1, monster2, battleResult, battleData,
           calls, thrown, responses >>

\* No request has been received.
NoRequests ==
    /\ battles = << >>
    /\ pc = [r \in Requests |-> "idle"]
    /\ body = [r \in Requests |-> [monster1Id |-> JsUndefined, monster2Id |-> JsUndefined]]
    /\ monster1 = [r \in Requests |-> Undefined]
    /\ monster2 = [r \in Requests |-> Undefined]
    /\ battleResult = [r \in Requests |-> NoResult]
    /\ battleData = [r \in Requests |-> NoBattleData]
    /\ calls = [r \in Requests |-> << >>]
    /\ thrown = [r \in Requests |-> NoError]
    /\ responses = [r \in Requests |-> << >>]

(* ---------------------------------------------------------------------- *)
(* The simulation on its own: every ordered pair of records                *)
(* ---------------------------------------------------------------------- *)
SimInit ==
    /\ \E first \in MonsterRecords(SimIds), second \in MonsterRecords(SimIds) :
          /\ first.id # second.id
          /\ args = << first, second >>
          /\ sim = SimStart(first, second)
    /\ result = NoResult
    /\ prevResult = NoResult
    /\ runs = 1
    /\ monsters = << >>
    /\ NoRequests

\* One pass through the loop body (lines 120-151).
Exchange ==
    /\ sim.pc = "loop"
    /\ LoopCond(sim)
    /\ sim' = LoopBody(sim)
    /\ UNCHANGED << args, result, prevResult, runs, reqVars >>

\* The loop condition is found false (line 120).
ExitLoop ==
    /\ sim.pc = "loop"
    /\ ~LoopCond(sim)
    /\ sim' = [sim EXCEPT !.pc = "exit"]
    /\ UNCHANGED << args, result, prevResult, runs, reqVars >>

\* Winner determination and return (lines 154-163).
Return ==
    /\ sim.pc = "exit"
    /\ sim' = [sim EXCEPT !.pc = "returned"]
    /\ result' = BattleResult(sim)
    /\ prevResult' = result
    /\ UNCHANGED << args, runs, reqVars >>

\* The caller simulates the same two records a second time.
Rerun ==
    /\ sim.pc = "returned"
    /\ runs = 1
    /\ runs' = runs + 1
    /\ sim' = SimStart(sim.monster1, sim.monster2)
    /\ UNCHANGED << args, result, prevResult, reqVars >>

SimNext == Exchange \/ ExitLoop \/ Return \/ Rerun

SpecSim == SimInit /\ [][SimNext]_vars

(* ---------------------------------------------------------------------- *)
(* create: two requests handled concurrently                               *)
(* ---------------------------------------------------------------------- *)
Init ==
    /\ args = << Undefined, Undefined >>
    /\ sim = SimIdle
    /\ result = NoResult
    /\ prevResult = NoResult
    /\ runs = 0
    /\ monsters \in Tables
    /\ NoRequests

Call(r, name) == calls' = [calls EXCEPT ![r] = Append(@, name)]

Respond(r, response) ==
    /\ responses' = [responses EXCEPT ![r] = Append(@, response)]
    /\ pc' = [pc EXCEPT ![r] = "done"]

\* The entry of the handler as it would be with the two validations in the
\* other order.
ReceiveEqualityFirst(r) ==
    /\ pc[r] = "idle"
    /\ \E monster1Id \in JsonIds, monster2Id \in JsonIds :
          /\ body' = [body EXCEPT ![r] = [monster1Id |-> monster1Id, monster2Id |-> monster2Id]]
          /\ IF SameId(monster1Id, monster2Id)
             THEN /\ Respond(r, ErrorResponse(BAD_REQUEST, "Monsters cannot battle themselves"))
                  /\ UNCHANGED calls
             ELSE IF MissingId(monster1Id, monster2Id)
             THEN /\ Respond(r, ErrorResponse(BAD_REQUEST, "Both monster1Id and monster2Id are required"))
                  /\ UNCHANGED calls
             ELSE /\ Call(r, "findById1")
                  /\ pc' = [pc EXCEPT ![r] = "lookup1"]
                  /\ UNCHANGED responses
    /\ UNCHANGED << simVars, monsters, battles, monster1, monster2, battleResult, battleData, thrown >>

\* The entry of the handler as it would be if the first lookup were started
\* before the validations.
ReceiveLookupBeforeValidation(r) ==
    /\ pc[r] = "idle"
    /\ \E monster1Id \in JsonIds, monster2Id \in JsonIds :
          /\ body' = [body EXCEPT ![r] = [monster1Id |-> monster1Id, monster2Id |-> monster2Id]]
          /\ Call(r, "findById1")
          /\ IF MissingId(monster1Id, monster2Id)
             THEN Respond(r, ErrorResponse(BAD_REQUEST, "Both monster1Id and monster2Id are required"))
             ELSE IF SameId(monster1Id, monster2Id)
             THEN Respond(r, ErrorResponse(BAD_REQUEST, "Monsters cannot battle themselves"))
             ELSE /\ pc' = [pc EXCEPT ![r] = "lookup1"]
                  /\ UNCHANGED responses
    /\ UNCHANGED << simVars, monsters, battles, monster1, monster2, battleResult, battleData, thrown >>

\* The handler is entered with a body and runs to the first await or to a
\* validation response (lines 37-51).
Receive(r) ==
    /\ pc[r] = "idle"
    /\ \E monster1Id \in JsonIds, monster2Id \in JsonIds :
          /\ body' = [body EXCEPT ![r] = [monster1Id |-> monster1Id, monster2Id |-> monster2Id]]
          /\ IF MissingId(monster1Id, monster2Id)
             THEN /\ Respond(r, ErrorResponse(BAD_REQUEST, "Both monster1Id and monster2Id are required"))
                  /\ UNCHANGED calls
             ELSE IF SameId(monster1Id, monster2Id)
             THEN /\ Respond(r, ErrorResponse(BAD_REQUEST, "Monsters cannot battle themselves"))
                  /\ UNCHANGED calls
             ELSE /\ Call(r, "findById1")
                  /\ pc' = [pc EXCEPT ![r] = "lookup1"]
                  /\ UNCHANGED responses
    /\ UNCHANGED << simVars, monsters, battles, monster1, monster2, battleResult, battleData, thrown >>

\* The first lookup's return as it would be if monster1 were one variable
\* shared by all requests instead of a local of the handler.
Lookup1ReturnsShared(r) ==
    /\ pc[r] = "lookup1"
    /\ monster1' = [q \in Requests |-> FindById(monsters, body[r].monster1Id)]
    /\ Call(r, "findById2")
    /\ pc' = [pc EXCEPT ![r] = "lookup2"]
    /\ UNCHANGED << simVars, monsters, battles, body, monster2, battleResult, battleData,
                    thrown, responses >>

\* The first lookup resolves; the second is issued (lines 51-52).
Lookup1Returns(r) ==
    /\ pc[r] = "lookup1"
    /\ monster1' = [monster1 EXCEPT ![r] = FindById(monsters, body[r].monster1Id)]
    /\ Call(r, "findById2")
    /\ pc' = [pc EXCEPT ![r] = "lookup2"]
    /\ UNCHANGED << simVars, monsters, battles, body, monster2, battleResult, battleData,
                    thrown, responses >>

\* The second lookup resolves; not-found check, simulation and the insert
\* being issued (lines 52-67).
Lookup2Returns(r) ==
    /\ pc[r] = "lookup2"
    /\ LET found == FindById(monsters, body[r].monster2Id)
       IN  /\ monster2' = [monster2 EXCEPT ![r] = found]
           /\ IF NotFound(monster1[r], found)
              THEN /\ Respond(r, ErrorResponse(NOT_FOUND, "One or both monsters not found"))
                   /\ UNCHANGED << calls, battleResult, battleData >>
              ELSE /\ battleResult' = [battleResult EXCEPT ![r] = simulateBattle(monster1[r], found)]
                   /\ battleData' = [battleData EXCEPT ![r] =
                         BattleData(monster1[r], found, simulateBattle(monster1[r], found))]
                   /\ calls' = [calls EXCEPT ![r] = @ \o << "simulateBattle", "insert" >>]
                   /\ pc' = [pc EXCEPT ![r] = "insert"]
                   /\ UNCHANGED responses
    /\ UNCHANGED << simVars, monsters, battles, body, monster1, thrown >>

\* The insert resolves with the stored row; the created response (lines 67-73).
InsertReturns(r) ==
    /\ pc[r] = "insert"
    /\ LET battle == [id |-> Len(battles) + 1] @@ battleData[r]
       IN  /\ battles' = Append(battles, battle)
           /\ Respond(r, CreatedResponse(battle, battleResult[r]))
    /\ UNCHANGED << simVars, monsters, body, monster1, monster2, battleResult, battleData,
                    calls, thrown >>

\* A rejected await as it would be without the try/catch: the handler ends
\* and nothing is sent.
AwaitThrowsUnhandled(r) ==
    /\ pc[r] \in {"lookup1", "lookup2", "insert"}
    /\ \E error \in Errors : thrown' = [thrown EXCEPT ![r] = error]
    /\ pc' = [pc EXCEPT ![r] = "done"]
    /\ UNCHANGED << simVars, monsters, battles, body, monster1, monster2, battleResult, battleData,
                    calls, responses >>

\* An awaited lookup or insert rejects; the catch block (lines 75-79).
AwaitThrows(r) ==
    /\ pc[r] \in {"lookup1", "lookup2", "insert"}
    /\ \E error \in Errors :
          /\ thrown' = [thrown EXCEPT ![r] = error]
          /\ Respond(r, CatchResponse(error))
    /\ UNCHANGED << simVars, monsters, battles, body, monster1, monster2, battleResult, battleData,
                    calls >>

Next ==
    \E r \in Requests :
        \/ Receive(r)
        \/ Lookup1Returns(r)
        \/ Lookup2Returns(r)
        \/ InsertReturns(r)
        \/ AwaitThrows(r)

Spec == Init /\ [][Next]_vars

\* One call on its own. The function is synchronous code with no
\* suspension point: once entered, it keeps taking its next step.
SimCall == Exchange \/ ExitLoop \/ Return

SpecSimCall == SimInit /\ [][SimCall]_vars /\ WF_vars(SimCall)

(* ---------------------------------------------------------------------- *)
(* Properties of simulateBattle (checked under SpecSim and SpecSimCall)   *)
(* ---------------------------------------------------------------------- *)

\* The input record with a given id (the two ids of a simulation differ).
RecordOf(id) == IF args[1].id = id THEN args[1] ELSE args[2]

TurnIndexes == 1 .. Len(sim.turns)

\* Number of recorded turns in which the combatant with this id defends.
DefenderTurns(id) == Cardinality({ k \in TurnIndexes : sim.turns[k].defender.id = id })

LoopExited == sim.pc \in {"exit", "returned"}

SomeoneAlive == args[1].hp > 0 \/ args[2].hp > 0

\* C1 as stated: the number of recorded turns is at most hpA + hpB and no
\* combatant defends in more turns than its own hit-points, for every pair
\* of records.
C1_TurnsWithinHitPointsAsStated ==
    /\ Len(sim.turns) <= args[1].hp + args[2].hp
    /\ DefenderTurns(args[1].id) <= args[1].hp
    /\ DefenderTurns(args[2].id) <= args[2].hp

C1_TurnBound ==
    /\ Len(sim.turns) <= Max(0, args[1].hp) + Max(0, args[2].hp)
    /\ DefenderTurns(args[1].id) <= Max(0, args[1].hp)
    /\ DefenderTurns(args[2].id) <= Max(0, args[2].hp)

\* C1 (amended): every simulation terminates (reaches its return), the
\* number of turns it records is at most max(0, hpA) + max(0, hpB), and no
\* combatant is the defender in more turns than max(0, its hit-points).
C1_TerminatesWithinHitPoints == [](C1_TurnBound) /\ <>(sim.pc = "returned")

\* A battle of maximal length: five turns between two combatants of three
\* hit-points, the loser having defended three times.
C1_Witness ==
    /\ sim.pc = "returned"
    /\ args[1].hp = 3 /\ args[2].hp = 3
    /\ Len(sim.turns) = 5
    /\ DefenderTurns(args[1].id) = 3 \/ DefenderTurns(args[2].id) = 3

ExactlyOneAlive ==
    (sim.fighter1.currentHp > 0) # (sim.fighter2.currentHp > 0)

\* C2 as stated: when the loop has exited exactly one working combatant
\* has currentHp > 0, for every pair of input records.
C2_ExactlyOneAliveAsStated == LoopExited => ExactlyOneAlive

\* C2 (amended): when the loop has exited exactly one working combatant has
\* currentHp > 0, for every pair of input records at least one of which has
\* positive hit-points.
C2_ExactlyOneAliveAtExit == (LoopExited /\ SomeoneAlive) => ExactlyOneAlive

\* The loop has exited after several turns with one combatant at zero and
\* the other, damaged, above zero.
C2_Witness ==
    /\ sim.pc = "exit"
    /\ Len(sim.turns) >= 2
    /\ sim.fighter1.currentHp = 0
    /\ sim.fighter2.currentHp > 0 /\ sim.fighter2.currentHp < args[2].hp

WinnerIsSurvivor ==
    /\ (result.winner = args[1]) <=> (sim.fighter1.currentHp > 0)
    /\ (result.winner = args[2]) <=> (sim.fighter2.currentHp > 0)

\* C3 as stated: the returned winner is the combatant whose currentHp is
\* above zero at loop exit, as its original input record, and is one of the
\* two input records.
C3_WinnerAsStated ==
    sim.pc = "returned" => (result.winner \in {args[1], args[2]} /\ WinnerIsSurvivor)

\* C3 (amended): the returned winner is always one of the two input records,
\* unmodified (its hp is the input hit-points, not the working copy's
\* currentHp); when at least one input record has positive hit-points it is
\* the record of the combatant whose currentHp is above zero at loop exit.
C3_WinnerIsOriginalRecordOfSurvivor ==
    sim.pc = "returned" =>
        /\ result.winner \in {args[1], args[2]}
        /\ SomeoneAlive => WinnerIsSurvivor

\* The winner took damage: its working copy's currentHp is below the hp of
\* the record returned.
C3_Witness ==
    /\ sim.pc = "returned"
    /\ result.winner = args[2]
    /\ sim.fighter2.currentHp > 0
    /\ sim.fighter2.currentHp < result.winner.hp

\* The combatant (1 or 2) the turn-order rule names for the first turn.
RuleFirst ==
    IF args[1].speed > args[2].speed THEN 1
    ELSE IF args[2].speed > args[1].speed THEN 2
    ELSE IF args[1].attack > args[2].attack THEN 1
    ELSE IF args[2].attack > args[1].attack THEN 2
    ELSE 1

\* C4: the first attacker is fixed before the loop: the faster combatant,
\* on equal speed the one with strictly higher attack, on equal speed and
\* attack the first-supplied one; it is the attacker of the first turn.
C4_FirstAttackerRule ==
    sim.pc # "idle" =>
        /\ sim.turns = << >> => sim.currentAttacker = RuleFirst
        /\ sim.turns # << >> => sim.turns[1].attacker = args[RuleFirst]
        /\ sim.turns # << >> => sim.turns[1].defender = args[Other(RuleFirst)]

\* Equal speed and attack, second-supplied record first in id order: the
\* first-supplied combatant has taken the first turn.
C4_Witness ==
    /\ sim.turns # << >>
    /\ args[1].speed = args[2].speed /\ args[1].attack = args[2].attack
    /\ args[1].id > args[2].id
    /\ sim.turns[1].attacker.id = args[1].id

\* C5: in every recorded turn the damage is at least 1 and is
\* max(1, attack of the turn's attacker - defense of the turn's defender).
C5_DamageFloor ==
    \A k \in TurnIndexes :
        /\ sim.turns[k].damage >= 1
        /\ sim.turns[k].attacker.id # sim.turns[k].defender.id
        /\ LET difference == RecordOf(sim.turns[k].attacker.id).attack
                                - RecordOf(sim.turns[k].defender.id).defense
           IN  sim.turns[k].damage = IF difference > 1 THEN difference ELSE 1

\* Both kinds of turn in one battle: one floored to 1 (attack below the
\* defense) and one of damage above 1.
C5_Witness ==
    /\ \E k \in TurnIndexes :
          /\ sim.turns[k].damage = 1
          /\ sim.turns[k].attacker.attack < sim.turns[k].defender.defense
    /\ \E k \in TurnIndexes : sim.turns[k].damage > 1

\* C6: in every recorded turn remainingHp is at least 0.
C6_RemainingHpNonNegative ==
    \A k \in TurnIndexes : sim.turns[k].remainingHp >= 0

\* A hit larger than what the defender had left, recorded as 0.
C6_Witness ==
    /\ Len(sim.turns) >= 3
    /\ sim.turns[Len(sim.turns)].remainingHp = 0
    /\ sim.turns[Len(sim.turns)].damage > sim.turns[Len(sim.turns) - 2].remainingHp

\* C7 as stated: in every state of a simulation each working combatant has
\* 0 <= currentHp <= hp of the record it was copied from.
C7_CurrentHpRangeAsStated ==
    sim.pc # "idle" =>
        /\ 0 <= sim.fighter1.currentHp /\ sim.fighter1.currentHp <= args[1].hp
        /\ 0 <= sim.fighter2.currentHp /\ sim.fighter2.currentHp <= args[2].hp

\* C7 (amended): in every state of a simulation each working combatant has
\* currentHp <= hp of the record it was copied from, and 0 <= currentHp
\* when that record's hit-points are not negative.
C7_CurrentHpRange ==
    sim.pc # "idle" =>
        /\ sim.fighter1.currentHp <= args[1].hp
        /\ sim.fighter2.currentHp <= args[2].hp
        /\ args[1].hp >= 0 => 0 <= sim.fighter1.currentHp
        /\ args[2].hp >= 0 => 0 <= sim.fighter2.currentHp

\* One combatant brought to 0 by a hit larger than what it had left, the
\* other strictly between 0 and its hit-points.
C7_Witness ==
    /\ sim.pc = "exit"
    /\ sim.fighter1.currentHp > 0 /\ sim.fighter1.currentHp < args[1].hp
    /\ sim.fighter2.currentHp = 0
    /\ Len(sim.turns) >= 3
    /\ sim.turns[Len(sim.turns)].damage > sim.turns[Len(sim.turns) - 2].remainingHp

Absent(v) == v.kind \in {"undefined", "null"}

Simulated(r) ==
    \/ battleResult[r] # NoResult
    \/ \E k \in 1 .. Len(calls[r]) : calls[r][k] = "simulateBattle"

\* C9: a request in which monster1Id or monster2Id is absent (undefined or
\* null) gets exactly the response 400 'Both monster1Id and monster2Id are
\* required'.
C9_AbsentIdRejected ==
    \A r \in Requests :
        (pc[r] # "idle" /\ (Absent(body[r].monster1Id) \/ Absent(body[r].monster2Id))) =>
            /\ pc[r] = "done"
            /\ Len(responses[r]) = 1
            /\ responses[r][1].status = 400
            /\ responses[r][1].error = "Both monster1Id and monster2Id are required"

\* The request of the test: monster1Id undefined, monster2Id 2, rejected.
C9_Witness ==
    \E r \in Requests :
        /\ body[r] = [monster1Id |-> JsUndefined, monster2Id |-> JsNum(2)]
        /\ Len(responses[r]) = 1
        /\ responses[r][1].status = 400

\* C10 as stated: a request whose two identifiers are both present and
\* equal gets the response 400 saying that a monster cannot battle itself,
\* and no battle is simulated.
C10_EqualIdsRejectedAsSelfBattle ==
    \A r \in Requests :
        (/\ pc[r] # "idle"
         /\ ~Absent(body[r].monster1Id)
         /\ ~Absent(body[r].monster2Id)
         /\ body[r].monster1Id = body[r].monster2Id) =>
            /\ pc[r] = "done"
            /\ Len(responses[r]) = 1
            /\ responses[r][1].status = 400
            /\ responses[r][1].error = "Monsters cannot battle themselves"
            /\ ~Simulated(r)

Received(r) == pc[r] # "idle"

\* The request has been answered, once, with this status and reason.
RejectedWith(r, status, error) ==
    /\ pc[r] = "done"
    /\ Len(responses[r]) = 1
    /\ responses[r][1].status = status
    /\ responses[r][1].error = error

Called(r, name) == \E k \in 1 .. Len(calls[r]) : calls[r][k] = name

\* C11: presence is checked before distinctness: a request whose two
\* identifiers are both missing, and so equal, is rejected with the
\* required-identifiers reason, never with the cannot-battle-itself reason.
C11_PresenceBeforeDistinctness ==
    \A r \in Requests :
        (/\ Received(r)
         /\ Absent(body[r].monster1Id)
         /\ Absent(body[r].monster2Id)) =>
            /\ RejectedWith(r, 400, "Both monster1Id and monster2Id are required")
            /\ \A k \in 1 .. Len(responses[r]) :
                  responses[r][k].error # "Monsters cannot battle themselves"

\* A body with neither identifier has been rejected.
C11_Witness ==
    \E r \in Requests :
        /\ body[r] = [monster1Id |-> JsUndefined, monster2Id |-> JsUndefined]
        /\ body[r].monster1Id = body[r].monster2Id
        /\ Len(responses[r]) = 1
        /\ responses[r][1].status = 400

PresentButFalsy(v) == v = JsNum(0) \/ v = JsStr("")

\* C12: an identifier that is present but falsy (0 or the empty string) is
\* treated as missing: the request is rejected with the required-identifiers
\* reason and nothing is looked up, even though a monster with id 0 is
\* stored.
C12_FalsyIdTreatedAsMissing ==
    \A r \in Requests :
        (/\ Received(r)
         /\ PresentButFalsy(body[r].monster1Id) \/ PresentButFalsy(body[r].monster2Id)) =>
            /\ RejectedWith(r, 400, "Both monster1Id and monster2Id are required")
            /\ calls[r] = << >>

\* The requests (0, 2) and (2, 0) have been rejected while monster 0 and
\* monster 2 are both stored.
C12_Witness ==
    /\ 0 \in DOMAIN monsters /\ monsters[0].id = 0
    /\ 2 \in DOMAIN monsters
    /\ \E r \in Requests :
          /\ body[r] = [monster1Id |-> JsNum(0), monster2Id |-> JsNum(2)]
          /\ responses[r] # << >>
    /\ \E r \in Requests :
          /\ body[r] = [monster1Id |-> JsNum(2), monster2Id |-> JsNum(0)]
          /\ responses[r] # << >>

\* The number of requests that got as far as issuing the insert.
InsertsIssued == Cardinality({ r \in Requests : Called(r, "insert") })

\* C13: a request rejected by validation (status 400) has issued no lookup,
\* has not run simulateBattle and has persisted nothing: it made no call at
\* all, holds no lookup result and no battle result, got exactly one
\* response, and the battle table holds no row beyond those of the requests
\* that issued an insert.
C13_RejectionHasNoOtherEffect ==
    /\ Len(battles) <= InsertsIssued
    /\ \A r \in Requests :
          (responses[r] # << >> /\ responses[r][1].status = 400) =>
              /\ calls[r] = << >>
              /\ monster1[r] = Undefined
              /\ monster2[r] = Undefined
              /\ battleResult[r] = NoResult
              /\ thrown[r] = NoError
              /\ Len(responses[r]) = 1
              /\ pc[r] = "done"

\* One request rejected for a missing identifier and one for equal
\* identifiers, with the battle table still empty.
C13_Witness ==
    /\ battles = << >>
    /\ \E r \in Requests :
          /\ body[r] = [monster1Id |-> JsNull, monster2Id |-> JsNum(1)]
          /\ responses[r] # << >>
    /\ \E r \in Requests :
          /\ body[r] = [monster1Id |-> JsNum(2), monster2Id |-> JsNum(2)]
          /\ responses[r] # << >>
          /\ responses[r][1].error = "Monsters cannot battle themselves"

\* The identifier is the key of no stored monster.
Unresolved(id) == DbKey(id) \notin DOMAIN monsters

EitherUnresolved(r) == Unresolved(body[r].monster1Id) \/ Unresolved(body[r].monster2Id)

PassedValidation(r) == Called(r, "findById1")

NotFoundOutcome(r) ==
    /\ RejectedWith(r, 404, "One or both monsters not found")
    /\ ~Simulated(r)
    /\ ~Called(r, "insert")
    /\ battleData[r] = NoBattleData

Truthy(v) ==
    \/ (v.kind = "number" /\ v.num # 0)
    \/ (v.kind = "string" /\ v.str # "")

\* The stored monster an identifier resolves to.
Stored(id) == monsters[DbKey(id)]

C16_GenericServerError ==
    /\ \A r \in Requests :
          thrown[r] # NoError =>
              /\ RejectedWith(r, 500, "Failed to create battle")
              /\ responses[r][1].id = 0
              /\ responses[r][1].winner = Undefined
              /\ responses[r][1].battleData = NoResult.battleData
    /\ \A r1 \in Requests, r2 \in Requests :
          (thrown[r1] # NoError /\ thrown[r2] # NoError) => responses[r1] = responses[r2]

\* Two failures of different kinds: a first lookup that threw one error, an
\* insert (after a simulation) that threw another.
C16_Witness ==
    \E r1 \in Requests, r2 \in Requests :
        /\ thrown[r1] # NoError /\ thrown[r2] # NoError
        /\ thrown[r1] # thrown[r2]
        /\ calls[r1] = << "findById1" >>
        /\ Called(r2, "insert") /\ Simulated(r2)
        /\ responses[r1] # << >> /\ responses[r2] # << >>

\* C17: the record handed to the insert holds the first monster's id as
\* monsterA, the second monster's id as monsterB and the winner's id as
\* winner; the winner is monsterA or monsterB; the row a created request
\* stored is that record and its winner is the id of the winner in the
\* response.
C17_PersistedRecord ==
    /\ \A k \in 1 .. Len(battles) : battles[k].winner \in {battles[k].monsterA, battles[k].monsterB}
    /\ \A r \in Requests :
          Called(r, "insert") =>
              /\ battleData[r].monsterA = Stored(body[r].monster1Id).id
              /\ battleData[r].monsterB = Stored(body[r].monster2Id).id
              /\ battleData[r].winner = battleResult[r].winner.id
              /\ battleData[r].winner \in {battleData[r].monsterA, battleData[r].monsterB}
              /\ (responses[r] # << >> /\ responses[r][1].status = 201) =>
                    /\ responses[r][1].winner.id = battleData[r].winner
                    /\ battles[responses[r][1].id].monsterA = battleData[r].monsterA
                    /\ battles[responses[r][1].id].monsterB = battleData[r].monsterB
                    /\ battles[responses[r][1].id].winner = battleData[r].winner

\* A stored battle between two different monsters won by the second.
C17_Witness ==
    \E r \in Requests :
        /\ responses[r] # << >>
        /\ responses[r][1].status = 201
        /\ battles[responses[r][1].id].monsterA # battles[responses[r][1].id].monsterB
        /\ battles[responses[r][1].id].winner = battles[responses[r][1].id].monsterB
        /\ responses[r][1].winner.id = battles[responses[r][1].id].monsterB

(* ---------------------------------------------------------------------- *)
(* Further properties of simulateBattle (checked under SpecSim)            *)
(* ---------------------------------------------------------------------- *)

StatFields == {"id", "name", "attack", "defense", "hp", "speed", "imageUrl"}

\* C18: simulateBattle never modifies its two input records: in every state
\* of a call the two argument objects, and the two records in the returned
\* battleData, have in every field the value they had at the call; of the
\* working copies only currentHp differs from the record.
C18_InputsUnmodified ==
    sim.pc # "idle" =>
        /\ sim.monster1 = args[1]
        /\ sim.monster2 = args[2]
        /\ \A f \in StatFields : sim.fighter1[f] = args[1][f] /\ sim.fighter2[f] = args[2][f]
        /\ sim.pc = "returned" =>
              /\ result.battleData.monster1 = args[1]
              /\ result.battleData.monster2 = args[2]

\* A returned battle in which both working copies lost hit-points.
C18_Witness ==
    /\ sim.pc = "returned"
    /\ sim.fighter1.currentHp < args[1].hp
    /\ sim.fighter2.currentHp < args[2].hp
    /\ sim.monster1.hp = args[1].hp
    /\ sim.monster2.hp = args[2].hp

DifferInSpeedOrAttack == args[1].speed # args[2].speed \/ args[1].attack # args[2].attack

SameOutcomeSwapped ==
    /\ result.winner = simulateBattle(args[2], args[1]).winner
    /\ result.battleData.turns = simulateBattle(args[2], args[1]).battleData.turns

\* C19 as stated: for any two records that differ in speed or in attack the
\* simulation of (a, b) and the simulation of (b, a) name the same winner
\* and record the same turn sequence.
C19_OrderIndependentAsStated ==
    (sim.pc = "returned" /\ DifferInSpeedOrAttack) => SameOutcomeSwapped

\* C19 (amended): for any two records that differ in speed or in attack and
\* of which at least one has positive hit-points, the simulation of (a, b)
\* and the simulation of (b, a) name the same winner and record the same
\* turn sequence.
C19_OrderIndependent ==
    (sim.pc = "returned" /\ DifferInSpeedOrAttack /\ SomeoneAlive) => SameOutcomeSwapped

\* Equal speed, the second-supplied record with the higher attack: it
\* attacked first and won a battle of several turns.
C19_Witness ==
    /\ sim.pc = "returned"
    /\ args[1].speed = args[2].speed
    /\ args[2].attack > args[1].attack
    /\ Len(result.battleData.turns) >= 3
    /\ result.battleData.turns[1].attacker = args[2]
    /\ result.winner = args[2]

\* Damage of the first attacker's hit, by the damage rule.
FirstHit ==
    IF args[RuleFirst].attack - args[Other(RuleFirst)].defense > 1
    THEN args[RuleFirst].attack - args[Other(RuleFirst)].defense
    ELSE 1

OneShot == FirstHit >= args[Other(RuleFirst)].hp

OneTurnWonByFirstAttacker ==
    /\ Len(result.battleData.turns) = 1
    /\ result.battleData.turns[1].remainingHp = 0
    /\ result.battleData.turns[1].attacker = args[RuleFirst]
    /\ result.winner = args[RuleFirst]

\* The battle of the documented scenario: A(attack 100, defense 10, hp 100,
\* speed 90) against B(attack 20, defense 10, hp 30, speed 50).
OneShotScenario ==
    simulateBattle(MonsterRecord(1, 100, 10, 100, 90), MonsterRecord(2, 20, 10, 30, 50))

\* C20 as stated: whenever the first attacker's damage is at least the
\* defender's hit-points the battle has exactly one turn, of remainingHp 0,
\* and the first attacker wins.
C20_OneShotKillAsStated ==
    (sim.pc = "returned" /\ OneShot) => OneTurnWonByFirstAttacker

\* C20 (amended): whenever both records have positive hit-points and the
\* first attacker's damage is at least the defender's hit-points, the battle
\* has exactly one turn, of remainingHp 0, and the first attacker wins; the
\* documented scenario gives one turn of damage 90 and winner A.
C20_OneShotKill ==
    sim.pc = "returned" =>
        /\ (OneShot /\ args[1].hp > 0 /\ args[2].hp > 0)
              => OneTurnWonByFirstAttacker
        /\ OneShotScenario =
              [winner |-> MonsterRecord(1, 100, 10, 100, 90),
               battleData |->
                 [monster1 |-> MonsterRecord(1, 100, 10, 100, 90),
                  monster2 |-> MonsterRecord(2, 20, 10, 30, 50),
                  turns |-> << [attacker |-> MonsterRecord(1, 100, 10, 100, 90),
                                defender |-> MonsterRecord(2, 20, 10, 30, 50),
                                damage |-> 90,
                                remainingHp |-> 0] >>]]

\* A first hit larger than the defender's hit-points, by the second-supplied
\* record: one turn, and the battle is over.
C20_Witness ==
    /\ sim.pc = "returned"
    /\ RuleFirst = 2
    /\ args[1].hp > 0
    /\ FirstHit > args[1].hp
    /\ Len(result.battleData.turns) = 1
    /\ result.winner = args[2]

\* The two records have the same attack, defense, hit-points and speed.
IdenticalStats ==
    /\ args[1].attack = args[2].attack
    /\ args[1].defense = args[2].defense
    /\ args[1].hp = args[2].hp
    /\ args[1].speed = args[2].speed

\* The log of a battle of hits of damage 1 between two combatants of hp
\* hit-points each, opened by first: first and second attack in turn and
\* each hit takes one hit-point, so that second is at 0 after its hp-th hit,
\* in turn 2 * hp - 1, when first still has one hit-point.
MinimumDamageLog(first, second, hp) ==
    [k \in 1 .. (2 * hp - 1) |->
        [attacker |-> IF k % 2 = 1 THEN first ELSE second,
         defender |-> IF k % 2 = 1 THEN second ELSE first,
         damage |-> 1,
         remainingHp |-> hp - ((k + 1) \div 2)]]

\* That battle, won by first.
MinimumDamageOutcome(first, second, hp) ==
    [winner |-> first,
     battleData |-> [monster1 |-> first, monster2 |-> second,
                     turns |-> MinimumDamageLog(first, second, hp)]]

\* The battle of the documented scenario: A and B both with attack 10,
\* defense 50, hp 5, speed 50.
MinimumDamageScenario ==
    simulateBattle(MonsterRecord(1, 10, 50, 5, 50), MonsterRecord(2, 10, 50, 5, 50))

\* C21: for two combatants with identical stats (attack 10, defense 50,
\* hp 5, speed 50) the first-supplied one, A, attacks first, every turn deals
\* damage 1, the attackers alternate, B is at 0 after its 5th received hit
\* (turn 9) while A still has 1, and the winner is A; the same holds of
\* every battle of two records of identical stats with positive hit-points
\* whose attack does not exceed the defense by more than 1 (the scenario is
\* computed whenever such a battle has returned).
C21_IdenticalStatsFirstSuppliedWins ==
    (/\ sim.pc = "returned"
     /\ IdenticalStats
     /\ args[1].hp > 0
     /\ args[1].attack - args[2].defense <= 1) =>
        /\ result = MinimumDamageOutcome(args[1], args[2], args[1].hp)
        /\ Len(result.battleData.turns) = 2 * args[1].hp - 1
        /\ MinimumDamageScenario =
              MinimumDamageOutcome(MonsterRecord(1, 10, 50, 5, 50),
                                   MonsterRecord(2, 10, 50, 5, 50), 5)
        /\ Len(MinimumDamageLog(MonsterRecord(1, 10, 50, 5, 50),
                                MonsterRecord(2, 10, 50, 5, 50), 5)) = 9

\* Identical stats with the attack below the defense and three hit-points,
\* the first-supplied record second in id order: five turns of damage 1,
\* won by the first-supplied record.
C21_Witness ==
    /\ sim.pc = "returned"
    /\ IdenticalStats
    /\ args[1].id > args[2].id
    /\ args[1].hp = 3
    /\ args[1].attack < args[1].defense
    /\ Len(result.battleData.turns) = 5
    /\ result.battleData.turns[5].remainingHp = 0
    /\ result.winner = args[1]

(* ---------------------------------------------------------------------- *)
(* Further properties of create (checked under Spec)                       *)
(* ---------------------------------------------------------------------- *)

\* What the request would get from simulateBattle if it were handled alone:
\* the battle of the two stored monsters its identifiers resolve to.
AloneResult(r) == simulateBattle(Stored(body[r].monster1Id), Stored(body[r].monster2Id))

\* C22: under every interleaving of two requests at their suspension points
\* (the two lookups and the insert) the winner and the turn log a request
\* computes, and those it responds with, are the ones it would produce if
\* handled alone on the same stored records.
C22_ConcurrentRequestsIndependent ==
    \A r \in Requests :
        /\ Simulated(r) =>
              /\ ~EitherUnresolved(r)
              /\ battleResult[r].winner = AloneResult(r).winner
              /\ battleResult[r].battleData.turns = AloneResult(r).battleData.turns
        /\ (responses[r] # << >> /\ responses[r][1].status = 201) =>
              /\ ~EitherUnresolved(r)
              /\ responses[r][1].winner = AloneResult(r).winner
              /\ responses[r][1].battleData.turns = AloneResult(r).battleData.turns

\* Two requests in flight at once on different monsters: one suspended at
\* its insert with its battle simulated, the other suspended between its two
\* lookups holding a first monster of its own.
C22_Witness ==
    \E r1 \in Requests, r2 \in Requests :
        /\ pc[r1] = "insert"
        /\ Len(battleResult[r1].battleData.turns) >= 2
        /\ pc[r2] = "lookup2"
        /\ monster1[r2] # Undefined
        /\ monster1[r2] # monster1[r1]
        /\ monster1[r2].hp # monster1[r1].hp

(* ---------------------------------------------------------------------- *)
(* The turn log (checked under SpecSim)                                    *)
(* ---------------------------------------------------------------------- *)

\* Number of recorded turns in which the combatant with this id attacks.
AttackerTurns(id) == Cardinality({ k \in TurnIndexes : sim.turns[k].attacker.id = id })

\* C23: at every point of every battle the numbers of turns in which each
\* combatant is the attacker differ by at most one, and the extra turn, if
\* any, belongs to the combatant that attacked first.
C23_FairTurnDistribution ==
    sim.pc # "idle" =>
        /\ AttackerTurns(args[1].id) + AttackerTurns(args[2].id) = Len(sim.turns)
        /\ AttackerTurns(args[RuleFirst].id) - AttackerTurns(args[Other(RuleFirst)].id) \in {0, 1}

\* A battle of five turns: three by the combatant that attacked first, two
\* by the other.
C23_Witness ==
    /\ sim.pc = "returned"
    /\ Len(sim.turns) = 5
    /\ AttackerTurns(sim.turns[1].attacker.id) = 3
    /\ AttackerTurns(sim.turns[1].defender.id) = 2

(* ---------------------------------------------------------------------- *)
(* The order of the stages of create (checked under Spec)                  *)
(* ---------------------------------------------------------------------- *)

\* C24 as stated: the two lookups of a request are issued concurrently:
\* while the lookup of monster1 has not completed, the lookup of monster2
\* has already been started.
C24_LookupsIssuedConcurrently ==
    \A r \in Requests : pc[r] = "lookup1" => Called(r, "findById2")

(* ---------------------------------------------------------------------- *)
(* The turn log, continued (checked under SpecSim)                         *)
(* ---------------------------------------------------------------------- *)

LastTurn == sim.turns[Len(sim.turns)]

\* C25: the loop ends as soon as a defender's currentHp reaches zero: every
\* turn but the last has remainingHp > 0 (no turn follows a turn of
\* remainingHp 0), the loop goes on only after a turn of remainingHp > 0, and
\* once the loop has exited the last recorded turn has remainingHp 0.
C25_LoopEndsOnZero ==
    /\ \A k \in TurnIndexes : k < Len(sim.turns) => sim.turns[k].remainingHp > 0
    /\ (sim.pc = "loop" /\ sim.turns # << >>) => LastTurn.remainingHp > 0
    /\ (LoopExited /\ sim.turns # << >>) => LastTurn.remainingHp = 0

\* The loop has exited after four turns: three of remainingHp above zero and
\* the last of remainingHp 0.
C25_Witness ==
    /\ sim.pc = "exit"
    /\ Len(sim.turns) = 4
    /\ sim.turns[3].remainingHp > 0
    /\ sim.turns[4].remainingHp = 0

\* C26: the roles swap after every turn that is not the last: the attacker
\* of turn k+1 is the defender of turn k and the defender of turn k+1 is the
\* attacker of turn k; in every turn attacker and defender are the two
\* different combatants; while the loop goes on, the next attacker is the
\* defender of the last turn.
C26_RolesSwap ==
    /\ \A k \in TurnIndexes :
          /\ sim.turns[k].attacker.id # sim.turns[k].defender.id
          /\ { sim.turns[k].attacker, sim.turns[k].defender } = { args[1], args[2] }
          /\ k < Len(sim.turns) =>
                /\ sim.turns[k + 1].attacker = sim.turns[k].defender
                /\ sim.turns[k + 1].defender = sim.turns[k].attacker
    /\ (sim.pc = "loop" /\ sim.turns # << >>) =>
          FighterOf(sim, sim.currentAttacker).id = LastTurn.defender.id

\* Three turns opened by the second-supplied record: it attacks, defends
\* and attacks again.
C26_Witness ==
    /\ Len(sim.turns) >= 3
    /\ sim.turns[1].attacker = args[2]
    /\ sim.turns[2].attacker = args[1]
    /\ sim.turns[3].attacker = args[2]
    /\ sim.turns[3].defender = args[1]

\* C27: in every turn the attacker and defender snapshots equal, field for
\* field, the input records of the two combatants: the hp of a snapshot is
\* the combatant's original hit-points even after earlier turns damaged it.
C27_SnapshotsAreInputRecords ==
    \A k \in TurnIndexes :
        /\ sim.turns[k].attacker.id \in {args[1].id, args[2].id}
        /\ sim.turns[k].defender.id \in {args[1].id, args[2].id}
        /\ DOMAIN sim.turns[k].attacker = StatFields
        /\ DOMAIN sim.turns[k].defender = StatFields
        /\ \A f \in StatFields :
              /\ sim.turns[k].attacker[f] = RecordOf(sim.turns[k].attacker.id)[f]
              /\ sim.turns[k].defender[f] = RecordOf(sim.turns[k].defender.id)[f]

\* The defender of turn 3 was already hit in turn 1, and the attacker of
\* turn 3 in turn 2: both snapshots of turn 3 still show the original
\* hit-points.
C27_Witness ==
    /\ Len(sim.turns) >= 3
    /\ sim.turns[3].defender.id = sim.turns[1].defender.id
    /\ sim.turns[1].remainingHp < sim.turns[3].defender.hp
    /\ sim.turns[3].defender.hp = RecordOf(sim.turns[3].defender.id).hp
    /\ sim.turns[2].remainingHp < sim.turns[3].attacker.hp
    /\ sim.turns[3].attacker.hp = RecordOf(sim.turns[3].attacker.id).hp

\* The defender's hit-points before the exchange of turn k: its record's hp
\* in the first turn in which it defends (turn 1 or 2), and the remainingHp
\* of turn k-2, its previous turn as defender, afterwards.
HpBeforeTurn(k) ==
    IF k <= 2 THEN RecordOf(sim.turns[k].defender.id).hp ELSE sim.turns[k - 2].remainingHp

RemainingHpFollowsRule ==
    \A k \in TurnIndexes :
        /\ k > 2 => sim.turns[k - 2].defender.id = sim.turns[k].defender.id
        /\ sim.turns[k].remainingHp =
              (IF HpBeforeTurn(k) - sim.turns[k].damage > 0
               THEN HpBeforeTurn(k) - sim.turns[k].damage
               ELSE 0)

\* A step that records a turn changes the currentHp of exactly one working
\* copy, the defender of that turn, to the remainingHp recorded.
OneCurrentHpChangesPerTurn ==
    Len(sim'.turns) = Len(sim.turns) + 1 =>
        LET turn == sim'.turns[Len(sim'.turns)]
        IN  /\ (sim'.fighter1.currentHp # sim.fighter1.currentHp)
                   # (sim'.fighter2.currentHp # sim.fighter2.currentHp)
            /\ turn.defender.id = sim.fighter1.id =>
                   /\ sim'.fighter1.currentHp = turn.remainingHp
                   /\ sim'.fighter2.currentHp = sim.fighter2.currentHp
            /\ turn.defender.id = sim.fighter2.id =>
                   /\ sim'.fighter2.currentHp = turn.remainingHp
                   /\ sim'.fighter1.currentHp = sim.fighter1.currentHp

\* C28: each turn's remainingHp is the defender's hit-points before the
\* exchange minus the turn's damage, floored at 0: max(0, hp - damage) in
\* the first turn in which a combatant defends, max(0, remainingHp(k-2) -
\* damage(k)) in every later turn k; and every turn changes the currentHp of
\* exactly one combatant.
C28_RemainingHpRule == [](RemainingHpFollowsRule) /\ [][OneCurrentHpChangesPerTurn]_vars

\* Three hit-points, hits of 2: the first hit leaves 1, the second hit on
\* the same combatant, in turn 3, is floored to 0.
C28_Witness ==
    /\ Len(sim.turns) = 3
    /\ sim.turns[1].remainingHp = sim.turns[1].defender.hp - sim.turns[1].damage
    /\ sim.turns[1].remainingHp > 0
    /\ sim.turns[3].damage > sim.turns[1].remainingHp
    /\ sim.turns[3].remainingHp = 0

\* During one call a step leaves the log as it is or adds one turn at its
\* end, and a pass through the loop body adds one.
LogOnlyGrowsAtEnd ==
    runs' = runs =>
        /\ Len(sim'.turns) \in { Len(sim.turns), Len(sim.turns) + 1 }
        /\ SubSeq(sim'.turns, 1, Len(sim.turns)) = sim.turns
        /\ (sim.pc = "loop" /\ sim.fighter1.currentHp > 0 /\ sim.fighter2.currentHp > 0) =>
              Len(sim'.turns) = Len(sim.turns) + 1

\* C29: the turn log is append-only during a simulation: every step of the
\* loop adds exactly one turn at the end of the log, no recorded turn is
\* changed, removed or reordered by a later step, and the log returned is
\* the log as recorded.
C29_TurnLogAppendOnly ==
    /\ [][LogOnlyGrowsAtEnd]_vars
    /\ [](sim.pc = "returned" => result.battleData.turns = sim.turns)

\* The defender of turn 1 was hit again in turn 3, and turn 1 still shows
\* what it had left after the first hit.
C29_Witness ==
    /\ Len(sim.turns) >= 3
    /\ sim.turns[1].defender = sim.turns[3].defender
    /\ sim.turns[1].remainingHp > sim.turns[3].remainingHp
    /\ sim.turns[1].remainingHp = sim.turns[1].defender.hp - sim.turns[1].damage

(* ---------------------------------------------------------------------- *)
(* The order of the stages of create, continued (checked under Spec)       *)
(* ---------------------------------------------------------------------- *)

StageOrder == << "findById1", "findById2", "simulateBattle", "insert" >>

\* Number of times the request has made the call of this name.
TimesCalled(r, name) == Cardinality({ k \in 1 .. Len(calls[r]) : calls[r][k] = name })

\* C30: within one request the stages occur in the order validate, look up
\* both combatants, simulate, persist, respond: the calls made are an initial
\* part of findById, findById, simulateBattle, insert, made only by a request
\* that passed both validations; simulateBattle is invoked at most once and
\* only after both lookups have returned a record; the insert is invoked at
\* most once and only after simulateBattle has returned; the created
\* response comes after the insert, and nothing is called after a response.
C30_StagesInOrder ==
    \A r \in Requests :
        /\ calls[r] = SubSeq(StageOrder, 1, Len(calls[r]))
        /\ calls[r] # << >> =>
              /\ ~MissingId(body[r].monster1Id, body[r].monster2Id)
              /\ body[r].monster1Id # body[r].monster2Id
        /\ TimesCalled(r, "simulateBattle") <= 1
        /\ TimesCalled(r, "insert") <= 1
        /\ (Called(r, "simulateBattle") \/ battleResult[r] # NoResult) =>
              /\ monster1[r] # Undefined
              /\ monster2[r] # Undefined
              /\ monster1[r] = Stored(body[r].monster1Id)
              /\ monster2[r] = Stored(body[r].monster2Id)
        /\ Called(r, "simulateBattle") <=> battleResult[r] # NoResult
        /\ Called(r, "insert") =>
              /\ battleResult[r] # NoResult
              /\ battleData[r].winner = battleResult[r].winner.id
        /\ battleData[r] # NoBattleData => Called(r, "simulateBattle")
        /\ (responses[r] # << >> /\ responses[r][1].status = 201) => calls[r] = StageOrder
        /\ responses[r] # << >> => (pc[r] = "done" /\ Len(responses[r]) = 1)
        /\ pc[r] = "lookup1" => calls[r] = SubSeq(StageOrder, 1, 1)
        /\ pc[r] = "lookup2" => calls[r] = SubSeq(StageOrder, 1, 2)
        /\ pc[r] = "insert" => calls[r] = StageOrder

\* One request through all the stages and answered 201, the other ended
\* after its two lookups because its second monster is not stored.
C30_Witness ==
    \E r1 \in Requests, r2 \in Requests :
        /\ calls[r1] = StageOrder
        /\ responses[r1] # << >> /\ responses[r1][1].status = 201
        /\ calls[r2] = << "findById1", "findById2" >>
        /\ monster1[r2] # Undefined /\ monster2[r2] = Undefined
        /\ responses[r2] # << >> /\ responses[r2][1].status = 404

(* ---------------------------------------------------------------------- *)
(* The battle algorithm as the README documents it                         *)
(* ---------------------------------------------------------------------- *)

\* determineFirstAttacker of the README: 1 for monster1, 2 for monster2.
determineFirstAttacker(first, second) ==
    IF first.speed > second.speed THEN 1
    ELSE IF second.speed > first.speed THEN 2
    ELSE IF first.attack >= second.attack THEN 1 ELSE 2

\* calculateDamage of the README.
calculateDamage(attack, defense) == IF attack - defense > 0 THEN attack - defense ELSE 1

\* The state of the documented simulateBattle: the two copies m1 and m2,
\* which copy attacker refers to, and the damage computed in each pass.
DocumentedStart(first, second) ==
    [m1 |-> Fighter(first), m2 |-> Fighter(second),
     attacker |-> determineFirstAttacker(first, second),
     damages |-> << >>, pc |-> "loop"]

\* One pass through the documented loop body.
DocumentedLoopBody(s) ==
    LET attacker == IF s.attacker = 1 THEN s.m1 ELSE s.m2
        defender == IF s.attacker = 1 THEN s.m2 ELSE s.m1
        damage == calculateDamage(attacker.attack, defender.defense)
        currentHp == Max(0, defender.currentHp - damage)
    IN  [s EXCEPT
           !.m1 = IF s.attacker = 2 THEN [@ EXCEPT !.currentHp = currentHp] ELSE @,
           !.m2 = IF s.attacker = 1 THEN [@ EXCEPT !.currentHp = currentHp] ELSE @,
           !.damages = Append(@, damage),
           !.attacker = IF currentHp <= 0 THEN @ ELSE Other(@),
           !.pc = IF currentHp <= 0 THEN "exit" ELSE "loop"]

RECURSIVE DocumentedLoop(_)
DocumentedLoop(s) ==
    IF s.pc = "loop" /\ s.m1.currentHp > 0 /\ s.m2.currentHp > 0
    THEN DocumentedLoop(DocumentedLoopBody(s))
    ELSE s

\* The documented simulateBattle: the winner it returns, with the first
\* attacker it chose and the damage of each of its turns.
DocumentedBattle(first, second) ==
    LET s == DocumentedLoop(DocumentedStart(first, second))
    IN  [firstAttacker |-> determineFirstAttacker(first, second),
         damages |-> s.damages,
         winner |-> IF s.m1.currentHp > 0 THEN first ELSE second]

\* The first attacker, the damage of each turn and the winner of the call
\* of the implemented simulateBattle that has returned.
ImplementedBattle ==
    [firstAttacker |-> IF sim.turns = << >>
                       THEN sim.currentAttacker
                       ELSE IF sim.turns[1].attacker.id = args[1].id THEN 1 ELSE 2,
     damages |-> [k \in 1 .. Len(result.battleData.turns) |-> result.battleData.turns[k].damage],
     winner |-> result.winner]

\* C31: the battle algorithm documented in the README (determineFirstAttacker
\* with >= on the attack, calculateDamage with 'damage > 0 ? damage : 1', and
\* its loop) and the implemented simulateBattle agree on every pair of
\* records: same first attacker, same damage in every turn, same winner.
C31_DocumentedAlgorithmEquivalent ==
    /\ (sim.pc = "loop" /\ sim.turns = << >>) =>
          sim.currentAttacker = determineFirstAttacker(args[1], args[2])
    /\ sim.pc = "returned" => ImplementedBattle = DocumentedBattle(args[1], args[2])

\* Equal speed and equal attack, where the documented rule tests >= and the
\* implemented one >: a battle of several turns opened and won by the
\* first-supplied record, with a turn floored to damage 1.
C31_Witness ==
    /\ sim.pc = "returned"
    /\ args[1].speed = args[2].speed
    /\ args[1].attack = args[2].attack
    /\ Len(result.battleData.turns) >= 3
    /\ result.battleData.turns[1].attacker = args[1]
    /\ result.battleData.turns[1].damage = 1
    /\ args[1].attack <= args[2].defense
    /\ result.winner = args[1]

(* ---------------------------------------------------------------------- *)
(* Distinct combatants (checked under Spec)                                *)
(* ---------------------------------------------------------------------- *)

\* C32 as stated: simulateBattle is invoked only on two different
\* combatants: whenever a request has simulated a battle, also one whose two
\* identifiers are of different JSON types, the two records handed to
\* simulateBattle have different ids.
C32_NeverBattlesItself ==
    \A r \in Requests :
        Called(r, "simulateBattle") =>
            /\ monster1[r].id # monster2[r].id
            /\ battleResult[r].battleData.monster1.id # battleResult[r].battleData.monster2.id

(* ---------------------------------------------------------------------- *)
(* The outcome in closed form (checked under SpecSim)                      *)
(* ---------------------------------------------------------------------- *)

\* ceil(a / b) for positive a and b.
CeilDiv(a, b) == (a + b - 1) \div b

\* max(1, attack - defense), written out.
ClosedFormDamage(attacker, defender) ==
    IF attacker.attack - defender.defense > 1 THEN attacker.attack - defender.defense ELSE 1

\* With F the first attacker of the log and S the other: n hits of F bring
\* S to 0 and m hits of S bring F to 0; F wins iff n <= m, after 2n - 1
\* turns, and S wins otherwise, after 2m turns.
ClosedFormOutcome(F, S) ==
    LET n == CeilDiv(S.hp, ClosedFormDamage(F, S))
        m == CeilDiv(F.hp, ClosedFormDamage(S, F))
    IN  /\ result.winner \in {F, S}
        /\ (result.winner = F) <=> (n <= m)
        /\ result.winner = F => Len(result.battleData.turns) = 2 * n - 1
        /\ result.winner = S => Len(result.battleData.turns) = 2 * m

\* C33: for two records of positive hit-points the outcome agrees with the
\* closed form: with F the first attacker, S the other, dF = max(1, F.attack
\* - S.defense), dS = max(1, S.attack - F.defense), n = ceil(S.hp / dF) and
\* m = ceil(F.hp / dS), F wins iff n <= m, and the log has exactly 2n - 1
\* turns when F wins and exactly 2m turns when S wins.
C33_ClosedFormOutcome ==
    (sim.pc = "returned" /\ args[1].hp > 0 /\ args[2].hp > 0) =>
        /\ result.battleData.turns # << >>
        /\ result.battleData.turns[1].attacker = args[RuleFirst]
        /\ ClosedFormOutcome(result.battleData.turns[1].attacker,
                             result.battleData.turns[1].defender)

\* The second attacker wins: it needs two hits (m = 2) and the first
\* attacker three (n = 3), so the log has 2m = 4 turns.
C33_Witness ==
    /\ sim.pc = "returned"
    /\ args[1].hp > 0 /\ args[2].hp > 0
    /\ Len(result.battleData.turns) = 4
    /\ result.winner = result.battleData.turns[1].defender
    /\ CeilDiv(result.battleData.turns[1].attacker.hp, result.battleData.turns[2].damage) = 2
    /\ CeilDiv(result.battleData.turns[1].defender.hp, result.battleData.turns[1].damage) = 3

\* The last turn of the log returned.
LastTurnReturned == result.battleData.turns[Len(result.battleData.turns)]

\* C34: whenever the log returned is not empty, the winner is the attacker
\* of the last turn and the loser the defender of the last turn; the
\* combatant that attacked first wins iff the number of turns is odd.
C34_LastAttackerWins ==
    (sim.pc = "returned" /\ result.battleData.turns # << >>) =>
        /\ result.winner = LastTurnReturned.attacker
        /\ result.winner # LastTurnReturned.defender
        /\ LastTurnReturned.defender \in {args[1], args[2]}
        /\ (result.winner = result.battleData.turns[1].attacker)
              <=> (Len(result.battleData.turns) % 2 = 1)

\* A battle of four turns, won by the combatant that attacked second, which
\* is the first-supplied record.
C34_Witness ==
    /\ sim.pc = "returned"
    /\ Len(result.battleData.turns) = 4
    /\ result.battleData.turns[1].attacker = args[2]
    /\ result.winner = args[1]
    /\ result.battleData.turns[4].attacker = args[1]

\* C35: if either input record has hit-points less than or equal to 0 the
\* loop body never runs and the turn log is empty; the winner is then
\* monster2 whenever monster1.hp <= 0, also when monster2.hp <= 0 too, and
\* monster1 otherwise: a winner whose currentHp is not above zero can be
\* named.
C35_NonPositiveHitPoints ==
    (sim.pc # "idle" /\ (args[1].hp <= 0 \/ args[2].hp <= 0)) =>
        /\ sim.turns = << >>
        /\ sim.fighter1.currentHp = args[1].hp
        /\ sim.fighter2.currentHp = args[2].hp
        /\ sim.pc = "returned" =>
              /\ result.battleData.turns = << >>
              /\ args[1].hp <= 0 => result.winner = args[2]
              /\ args[1].hp > 0 => result.winner = args[1]

\* Both records at hit-points <= 0: monster2 is returned as the winner with
\* a currentHp that is not above zero, and no turn was recorded.
C35_Witness ==
    /\ sim.pc = "returned"
    /\ args[1].hp <= 0 /\ args[2].hp <= 0
    /\ result.winner = args[2]
    /\ sim.fighter2.currentHp <= 0
    /\ result.battleData.turns = << >>

(* ---------------------------------------------------------------------- *)
(* Responses (checked under SpecSettled and Spec)                          *)
(* ---------------------------------------------------------------------- *)

\* The awaited call a request is suspended at settles: it returns or throws.
Settles(r) == AwaitThrows(r) \/ Lookup1Returns(r) \/ Lookup2Returns(r) \/ InsertReturns(r)

\* The handler when every awaited lookup and insert eventually settles.
SpecSettled == Init /\ [][Next]_vars /\ \A r \in Requests : WF_vars(Settles(r))

AtMostOneKnownResponse ==
    \A r \in Requests :
        /\ Len(responses[r]) <= 1
        /\ pc[r] = "done" <=> Len(responses[r]) = 1
        /\ \A k \in 1 .. Len(responses[r]) : responses[r][k].status \in {400, 404, 201, 500}

\* C36: every battle request ends with exactly one response, which is a
\* 400, a 404, a 201 or a 500: no request ever has two responses, a request
\* has ended exactly when it has its response, and, every awaited lookup and
\* insert returning or throwing, every request received gets its response.
C36_ExactlyOneResponse ==
    /\ [](AtMostOneKnownResponse)
    /\ \A r \in Requests : (pc[r] # "idle") ~> (Len(responses[r]) = 1)

\* The four kinds of response between the two requests of two runs: here a
\* 201 after three awaits and a 500 from a lookup that threw.
C36_Witness ==
    \E r1 \in Requests, r2 \in Requests :
        /\ Len(responses[r1]) = 1 /\ responses[r1][1].status = 201
        /\ Len(responses[r2]) = 1 /\ responses[r2][1].status = 500
        /\ calls[r2] = << "findById1", "findById2" >>

\* The requests answered 201.
CreatedRequests == { r \in Requests : responses[r] # << >> /\ responses[r][1].status = 201 }

\* The insert of the request threw.
InsertFailed(r) == Called(r, "insert") /\ thrown[r] # NoError

\* C37: a 201 response is returned only if the insert succeeded, and its id
\* is the id of the row the insert returned (one stored row per 201
\* response, no two responses with the same id); when the insert fails the
\* request ends with 500 'Failed to create battle' carrying no id, winner or
\* turn log, although simulateBattle has run, and no row is stored for it.
C37_CreatedOnlyAfterInsert ==
    /\ Len(battles) = Cardinality(CreatedRequests)
    /\ \A r \in CreatedRequests :
          /\ Called(r, "insert")
          /\ thrown[r] = NoError
          /\ responses[r][1].id \in 1 .. Len(battles)
          /\ battles[responses[r][1].id] = [id |-> responses[r][1].id] @@ battleData[r]
          /\ \A q \in CreatedRequests : q # r => responses[q][1].id # responses[r][1].id
    /\ \A r \in Requests :
          InsertFailed(r) =>
              /\ RejectedWith(r, 500, "Failed to create battle")
              /\ responses[r][1].id = 0
              /\ responses[r][1].winner = Undefined
              /\ responses[r][1].battleData.turns = << >>
              /\ battleResult[r] # NoResult
              /\ r \notin CreatedRequests

\* One request whose insert threw after a battle of several turns was
\* simulated, answered 500, and one answered 201 with the id of the only
\* stored row.
C37_Witness ==
    \E r1 \in Requests, r2 \in Requests :
        /\ InsertFailed(r1)
        /\ Len(battleResult[r1].battleData.turns) >= 2
        /\ responses[r1] # << >> /\ responses[r1][1].status = 500
        /\ r2 \in CreatedRequests
        /\ responses[r2][1].id = 1
        /\ Len(battles) = 1

====
